---- MODULE Spec2Model ----
(***************************************************************************)
(* Model of FastStorageProvider (src/src/storage/fastStorageProvider.ts):  *)
(* the cache, the in-flight read registry, the debounced write queue, the  *)
(* flusher with its temp-file/rename store, and the eviction policy.       *)
(*                                                                         *)
(* One action is one non-suspending span of the code (everything between   *)
(* two awaits), or one step of the operating system on a file.             *)
(* A snapshot is identified by a label: 0 is the empty snapshot [] and the *)
(* k-th saveData of a run carries label k.                                 *)
(***************************************************************************)
EXTENDS Integers, Sequences, FiniteSets, Bags, TLC

\* ---------------------------------------------------------------- bounds
\* A run takes each of its bounds from the smaller or the larger of two values.
NTables == 2        \* tables the callers operate on
FewTables == 1
MaxPuts == 2        \* saveData calls in one run
FewPuts == 1
MaxLoads == 2       \* loadFromDisk calls in flight at once
FewLoads == 1
MaxCallers == 2     \* getData callers sharing one load
MaxFlushes == 2     \* flushWrites calls in flight at once
FewFlushes == 1
MaxReads == 1       \* loads counted per table on top of the initial counter
MaxTime == 2        \* largest value of the clock
NFill == 49         \* further tables resident in the cache when an eviction run starts
MaxObjs == 2        \* records a caller holds, and the length of its arrays
MaxAdds == 2        \* concurrent add() calls on one DbSet
MaxKey == 2         \* largest key a caller gives to add() or update()
MaxLen == 3         \* records in the table that is indexed
MaxVal == 3         \* largest value of the indexed field

\* ------------------------------------------------------ program constants
HighWater == 50
LowWater == 40
hotDataThreshold == 10
writeDelay == 100

Tables == 1..NTables

NoFile == [data |-> -1, full |-> TRUE]   \* the path does not exist
Err == -2                                \* a rejected result

VARIABLES
  cache,        \* Map<string, CacheEntry>, in insertion order
  writeQueue,   \* Map<string, any[]>, in insertion order
  writeTimer,   \* TRUE iff this.writeTimer is set
  version,      \* this.version
  readCounts,   \* this.readCounts
  loads,        \* loadFromDisk calls in flight (with the pendingReads registration)
  flushes,      \* flushWrites calls in flight, each with its writeToDisk calls
  disk,         \* <dataDir>/<table>.json
  temp,         \* <dataDir>/<table>.json.tmp
  now,          \* Date.now()
  alive,        \* the process is running
  lim,          \* the bounds of this run, and whether it keeps the history
  heap,         \* the records and arrays a caller shares with the cache of one table
  idx,          \* a table's records, the index on one of their fields, the last range query
  adds,         \* the add() calls on the DbSet of table 1, its writeLock, and the keys
                \* in each snapshot the DbSet has saved
  lastPut,      \* history: label of the last saveData per table (0: none)
  got,          \* history: the newest snapshot a getData served from the cache has returned
  winPuts,      \* history: saveData calls per table in the current debounce window
  timers,       \* history: the times at which the pending setTimeout timers are due
  lost,         \* history: label of the last snapshot per table whose write was
                \* rejected (0: none)
  late,         \* history: label of the last saveData per table that came while a
                \* flush was in flight (0: none)
  writeFailed,  \* history: some writeToDisk call was rejected
  last          \* history: the step just taken

vars == <<cache, writeQueue, writeTimer, version, readCounts, loads, flushes,
          disk, temp, now, alive, lim, heap, idx, adds, lastPut, got, winPuts, timers, late,
          lost, writeFailed, last>>

\* the fields of the provider and its files
provider == <<cache, writeQueue, writeTimer, version, readCounts, loads, flushes, disk, temp,
              now, alive, lim, adds, lastPut, got, winPuts, timers, late, lost, writeFailed,
              last>>

\* ------------------------------------------------------------ sequences
Range(s) == {s[i] : i \in 1..Len(s)}

RemoveAt(s, i) == SubSeq(s, 1, i - 1) \o SubSeq(s, i + 1, Len(s))

Min(a, b) == IF a < b THEN a ELSE b

\* ------------------------------------------------------------- the cache
CacheTables(c) == {c[i].table : i \in 1..Len(c)}

InCache(c, t) == \E i \in 1..Len(c) : c[i].table = t

CacheEntry(c, t) == c[CHOOSE i \in 1..Len(c) : c[i].table = t]

MapSetAppend(m, e) == Append(m, e)

\* Map.set: an existing key keeps its place, a new key goes last.
MapSet(m, e) ==
  IF \E i \in 1..Len(m) : m[i].table = e.table
  THEN [i \in 1..Len(m) |-> IF m[i].table = e.table THEN e ELSE m[i]]
  ELSE Append(m, e)

MapDelete(m, keys) == SelectSeq(m, LAMBDA e : e.table \notin keys)

\* Array.prototype.sort((a, b) => a[1].lastAccess - b[1].lastAccess): stable, so
\* the sorted array is, for each last access in ascending order, the entries of
\* that last access in the order they had.
RECURSIVE SortedByTimes(_, _)
SortedByTimes(s, times) ==
  IF times = {} THEN <<>>
  ELSE LET first == CHOOSE v \in times : \A w \in times : v <= w
       IN  SelectSeq(s, LAMBDA e : e.lastAccess = first) \o SortedByTimes(s, times \ {first})

SortByLastAccess(s) == SortedByTimes(s, {s[i].lastAccess : i \in 1..Len(s)})

evictIfNeededNever(c) == c

evictIfNeededUnsorted(c) ==
  IF Len(c) > HighWater
  THEN MapDelete(c, CacheTables(SubSeq(c, 1, Len(c) - LowWater)))
  ELSE c

\* an eviction whose sort puts the entries of equal last access in reverse order
evictIfNeededReversed(c) ==
  IF Len(c) > HighWater
  THEN LET entries == SortByLastAccess([i \in 1..Len(c) |-> c[Len(c) + 1 - i]])
           toRemove == SubSeq(entries, 1, Len(entries) - LowWater)
       IN  MapDelete(c, CacheTables(toRemove))
  ELSE c

\* an eviction that starts as soon as the high-water mark is reached
evictIfNeededAtMark(c) ==
  IF Len(c) >= HighWater
  THEN LET entries == SortByLastAccess(c)
           toRemove == SubSeq(entries, 1, Len(entries) - LowWater)
       IN  MapDelete(c, CacheTables(toRemove))
  ELSE c

evictIfNeeded(c) ==
  IF Len(c) > HighWater
  THEN LET entries == SortByLastAccess(c)
           toRemove == SubSeq(entries, 1, Len(entries) - LowWater)
       IN  MapDelete(c, CacheTables(toRemove))
  ELSE c

NewEntry(t, d, v, ts) == [table |-> t, data |-> d, version |-> v, lastAccess |-> ts]

addToCacheDropped(c, t, d, v, ts) == evictIfNeeded(c)

addToCache(c, t, d, v, ts) == evictIfNeeded(MapSet(c, NewEntry(t, d, v, ts)))

\* the entries an eviction pass removed on the way from cache c, with entry e set,
\* to cache d
Evicted(c, e, d) == {x \in Range(MapSet(c, e)) : x.table \notin CacheTables(d)}

\* ------------------------------------------------------------ the loads
\* The loads in flight are a bag of records: the table, who started it (getData or
\* warmCache), how far it is, what it read, whether its promise is the one
\* registered in pendingReads, and its getData callers.
LoadsOf(t) == {l \in BagToSet(loads) : l.table = t}

InFlight(S) == BagCardinality([l \in S |-> loads[l]])

\* this.pendingReads.get(t)
Pending(t) == {l \in BagToSet(loads) : l.table = t /\ l.reg}

Unregistered(l) == [l EXCEPT !.reg = FALSE]

\* a getData that leaves the registration of its load in place
pendingReadsDeleteSkipped(ls, t) == ls

\* this.pendingReads.delete(t)
pendingReadsDelete(ls, t) ==
  LET Drop(l) == IF l.table = t THEN Unregistered(l) ELSE l
  IN  BagOfAll(Drop, ls)

\* this.pendingReads.clear()
pendingReadsClear(ls) == BagOfAll(Unregistered, ls)

One(l) == SetToBag({l})

\* the promise of load l has settled
Settled(ls, l) == (ls (-) One(l)) (+) One([l EXCEPT !.pc = "settled"])

\* a settled promise lives on only as long as pendingReads holds it
Held(ls) ==
  LET S == {l \in BagToSet(ls) : l.pc # "settled" \/ l.reg}
  IN  [l \in S |-> ls[l]]

\* ------------------------------------------------------------ history
\* The step just taken: the operation, its table, the snapshot it took or returned,
\* for a read what its callers had last put when they called, how many getData
\* calls in a row have met a table that was neither cached nor loading, whether a
\* getData came right after the saveData of its table, the cache entries an
\* eviction removed, and the tables a flush announced, in the order of the events.
Quiet == [op |-> "none", table |-> 0, data |-> 0, callers |-> <<>>, n |-> 0, fresh |-> FALSE,
          out |-> {}, ev |-> <<>>]

Step(op, t, d) == [Quiet EXCEPT !.op = op, !.table = t, !.data = d]

\* What a run remembers, where its bounds say so: the last saveData of each table,
\* the saveData calls of each table since the timer was last armed from idle,
\* whether a writeToDisk call was rejected, and the newest snapshot of each table
\* that a getData served from the cache has returned.
\* ------------------------------------------------------------ DbSet.add
\* adds.pc[i] is where the i-th add() call stands: "idle" (not called), "waiting"
\* (at await currentLock, or about to call getData), "loading" (at await getData),
\* "got" (getData has resolved with the snapshot adds.data[i]), "done" (resolved
\* with the key adds.key[i]) or "failed" (rejected).  adds.prev[i] is the call
\* whose promise was this.writeLock when call i was made (0: the resolved promise
\* of the constructor), adds.writeLock the call whose promise it is now, and
\* adds.snap[v] the keys of the records in the snapshot that saveData numbered v.
\* adds.op[i] tells an add() from an update() and adds.arg[i] is the key of the
\* entity the caller passed (0: none).
Adders == 1..MaxAdds

NoAdds ==
  [pc |-> [i \in Adders |-> "idle"], prev |-> [i \in Adders |-> 0],
   data |-> [i \in Adders |-> 0], key |-> [i \in Adders |-> 0], writeLock |-> 0,
   snap |-> [v \in 0..0 |-> <<>>],
   op |-> [i \in Adders |-> "add"], arg |-> [i \in Adders |-> 0]]

\* an add() that does not wait for the lock
mayEnterUnlocked(a, i) == TRUE

\* a lock that a call releases only when it returns
mayEnterAfterDone(a, i) == a.prev[i] = 0 \/ a.pc[a.prev[i]] = "done"

\* dbSet.ts line 103: await currentLock returns once the call before has run its
\* finally block (line 106)
mayEnter(a, i) == a.prev[i] = 0 \/ a.pc[a.prev[i]] \in {"done", "failed"}

Entering(a) == {i \in Adders : a.pc[i] = "waiting" /\ mayEnter(a, i)}

\* an update() that does not look for the entity
foundAnyway(a, i) == TRUE

\* dbSet.ts lines 158-161: update() goes on only if findIndex finds the key
found(a, i) == a.op[i] = "update" => a.arg[i] \in Range(a.snap[a.data[i]])

Saving(a) == {i \in Adders : a.pc[i] = "got" /\ found(a, i)}

First(S) == CHOOSE i \in S : \A j \in S : i <= j

\* an add() that numbers the records by their count
maxIdByCount(keys) == Len(keys)

\* dbSet.ts line 117: Math.max(0, ...data.map(item => item[primaryKey] || 0))
maxId(keys) == IF keys = <<>> THEN 0 ELSE CHOOSE k \in Range(keys) : \A x \in Range(keys) : x <= k

\* what a step of the provider means to the add() calls: the call that has the
\* lock calls getData (line 112) and resumes with its result, assigns the key
\* (lines 116-119), appends the record and calls saveData (lines 121-122)
Resumed(a, l) ==
  IF l.table # 1 THEN a
  ELSE IF l.op = "hit" /\ Entering(a) # {}
  THEN [a EXCEPT !.pc[First(Entering(a))] = "got", !.data[First(Entering(a))] = l.data]
  ELSE IF l.op \in {"start", "join"} /\ Entering(a) # {}
  THEN [a EXCEPT !.pc[First(Entering(a))] = "loading"]
  ELSE IF l.op = "loaded"
  THEN [a EXCEPT !.pc = [i \in Adders |-> IF a.pc[i] # "loading" THEN a.pc[i]
                                           ELSE IF l.data = Err THEN "failed" ELSE "got"],
                 !.data = [i \in Adders |-> IF a.pc[i] = "loading" THEN l.data ELSE a.data[i]]]
  ELSE IF l.op = "put" /\ Saving(a) # {}
  THEN LET i == First(Saving(a))
           keys == a.snap[a.data[i]]
           id == IF a.arg[i] = 0 THEN maxId(keys) + 1 ELSE a.arg[i]
           saved == IF a.op[i] = "add" THEN Append(keys, id) ELSE keys
       IN  [a EXCEPT !.pc[i] = "done", !.key[i] = id,
                     !.snap = [v \in 0..l.data |-> IF v = l.data THEN saved ELSE a.snap[v]]]
  ELSE a

\* dbSet.ts lines 98-100 and 111: add() takes the promise in this.writeLock and
\* puts its own there
addCalled(i) ==
  /\ alive
  /\ adds.pc[i] = "idle"
  /\ adds' = [adds EXCEPT !.pc[i] = "waiting", !.prev[i] = adds.writeLock, !.writeLock = i]
  /\ UNCHANGED <<cache, writeQueue, writeTimer, version, readCounts, loads, flushes, disk, temp,
                 now, alive, lim, heap, idx, lastPut, got, winPuts, timers, late, lost,
                 writeFailed, last>>

\* dbSet.ts lines 98-100, 111 and 153: add(entity) or update(entity), where the
\* entity has the key arg (0: it has none)
setCalled(i, op, arg) ==
  /\ alive
  /\ adds.pc[i] = "idle"
  /\ adds' = [adds EXCEPT !.pc[i] = "waiting", !.prev[i] = adds.writeLock, !.writeLock = i,
                          !.op[i] = op, !.arg[i] = arg]
  /\ UNCHANGED <<cache, writeQueue, writeTimer, version, readCounts, loads, flushes, disk, temp,
                 now, alive, lim, heap, idx, lastPut, got, winPuts, timers, late, lost,
                 writeFailed, last>>

\* dbSet.ts lines 159-161: update() throws 'Entity not found'; the finally block
\* of withWriteLock releases the lock
updateFails(i) ==
  /\ alive
  /\ adds.pc[i] = "got"
  /\ ~found(adds, i)
  /\ adds' = [adds EXCEPT !.pc[i] = "failed"]
  /\ UNCHANGED <<cache, writeQueue, writeTimer, version, readCounts, loads, flushes, disk, temp,
                 now, alive, lim, heap, idx, lastPut, got, winPuts, timers, late, lost,
                 writeFailed, last>>

\* a saveData that sets a timer on every call
schedulesAlways(timerSet) == TRUE

\* line 94: saveData sets a timer only when this.writeTimer holds none
schedules(timerSet) == ~timerSet

\* lines 94-96, 136 and 169: saveData sets a timer that is due writeDelay from now;
\* the timer that fires is the oldest, clearTimeout(this.writeTimer) in close()
\* removes the newest; the timers end with the process
Scheduled(ts, l, c) ==
  IF ~alive' THEN <<>>
  ELSE IF l.op = "put" /\ schedules(writeTimer) THEN Append(ts, now + writeDelay)
  ELSE IF l.op = "flush" /\ ts # <<>>
  THEN IF c THEN SubSeq(ts, 1, Len(ts) - 1) ELSE SubSeq(ts, 2, Len(ts))
  ELSE ts

History ==
  /\ lim' = lim
  /\ heap' = heap
  /\ idx' = idx
  /\ adds' = Resumed(adds, last')
  /\ IF lim.track
     THEN /\ lastPut' = IF last'.op = "put" THEN [lastPut EXCEPT ![last'.table] = last'.data]
                        ELSE lastPut
          /\ winPuts' = IF last'.op # "put" THEN winPuts
                        ELSE IF writeTimer THEN [winPuts EXCEPT ![last'.table] = @ + 1]
                        ELSE [t \in Tables |-> IF t = last'.table THEN 1 ELSE 0]
          /\ writeFailed' = (writeFailed \/ last'.op \in {"enoent", "failed"})
          /\ lost' = IF last'.op \in {"enoent", "failed"}
                     THEN [lost EXCEPT ![last'.table] = last'.data]
                     ELSE lost
          /\ late' = IF last'.op = "put" /\ flushes # <<>>
                     THEN [late EXCEPT ![last'.table] = last'.data]
                     ELSE late
          /\ timers' = Scheduled(timers, last', flushes' # <<>> /\ flushes'[Len(flushes')].closer)
          /\ got' = IF last'.op = "hit" /\ last'.data > got[last'.table]
                    THEN [got EXCEPT ![last'.table] = last'.data]
                    ELSE got
     ELSE UNCHANGED <<lastPut, winPuts, writeFailed, got, timers, late, lost>>

\* ------------------------------------------------------------- saveData
\* a saveData that leaves the counter where it was
nextVersionKept(v) == v

\* line 88: this.version++
nextVersion(v) == v + 1

\* lines 86-97; the snapshot is labelled with the number of the put
saveData(t) ==
  /\ alive
  /\ version' = nextVersion(version)
  /\ cache' = addToCache(cache, t, version + 1, version', now)
  /\ writeQueue' = MapSet(writeQueue, [table |-> t, data |-> version + 1])
  /\ writeTimer' = TRUE
  /\ last' = [Step("put", t, version + 1) EXCEPT
                !.out = Evicted(cache, NewEntry(t, version + 1, version', now), cache')]
  /\ UNCHANGED <<readCounts, loads, flushes, disk, temp, now, alive>>
  /\ History

\* -------------------------------------------------------------- getData
\* the call comes right after the saveData of its table
Fresh(t) == last.op = "put" /\ last.table = t

\* a hit that renews the last access of every entry
touchAll(c, t, ts) == [i \in 1..Len(c) |-> [c[i] EXCEPT !.lastAccess = ts]]

\* line 52: cached.lastAccess = Date.now()
touch(c, t, ts) ==
  [i \in 1..Len(c) |-> IF c[i].table = t THEN [c[i] EXCEPT !.lastAccess = ts] ELSE c[i]]

\* lines 50-54: the table is cached
getCached(t) ==
  /\ alive
  /\ InCache(cache, t)
  /\ cache' = touch(cache, t, now)
  /\ last' = [Step("hit", t, CacheEntry(cache, t).data) EXCEPT
                !.callers = <<lastPut[t]>>, !.fresh = Fresh(t)]
  /\ UNCHANGED <<writeQueue, writeTimer, version, readCounts, loads, flushes, disk, temp, now,
                 alive>>
  /\ History

\* the run of getData calls on one table that began with no load of it in flight
Burst(t) == IF last.op \in {"start", "join"} /\ last.table = t /\ last.n >= 1
            THEN last.n + 1 ELSE 0

NewLoad(t, kind, reg, callers) ==
  [table |-> t, kind |-> kind, pc |-> "reading", data |-> 0, reg |-> reg, callers |-> callers]

getPendingAlone(t) ==
  /\ alive
  /\ ~InCache(cache, t)
  /\ Pending(t) # {}
  /\ loads' = loads (+) One(NewLoad(t, "get", FALSE, <<lastPut[t]>>))
  /\ last' = [Step("join", t, 0) EXCEPT !.n = Burst(t), !.fresh = Fresh(t)]
  /\ UNCHANGED <<cache, writeQueue, writeTimer, version, readCounts, flushes, disk, temp, now,
                 alive>>
  /\ History

\* lines 56-59: a load of the table is registered, the caller shares its promise
getPending(t) ==
  /\ alive
  /\ ~InCache(cache, t)
  /\ Pending(t) # {}
  /\ \E l \in Pending(t) :
       loads' = (loads (-) One(l)) (+) One([l EXCEPT !.callers = Append(@, lastPut[t])])
  /\ last' = [Step("join", t, 0) EXCEPT !.n = Burst(t), !.fresh = Fresh(t)]
  /\ UNCHANGED <<cache, writeQueue, writeTimer, version, readCounts, flushes, disk, temp, now,
                 alive>>
  /\ History

\* lines 61-62: a new load is started and registered
getLoad(t) ==
  /\ alive
  /\ ~InCache(cache, t)
  /\ Pending(t) = {}
  /\ loads' = loads (+) One(NewLoad(t, "get", TRUE, <<lastPut[t]>>))
  /\ last' = [Step("start", t, 0) EXCEPT
                !.n = IF LoadsOf(t) = {} THEN 1 ELSE 0, !.fresh = Fresh(t)]
  /\ UNCHANGED <<cache, writeQueue, writeTimer, version, readCounts, flushes, disk, temp, now,
                 alive>>
  /\ History

getData(t) == getCached(t) \/ getPending(t) \/ getLoad(t)

\* -------------------------------------------------------------- connect
WarmLoads(P) == SetToBag({NewLoad(t, "warm", FALSE, <<>>) : t \in P})

\* line 45: every table of config.preload gets a warmCache call
connect(P) ==
  /\ alive
  /\ loads' = loads (+) WarmLoads(P)
  /\ last' = Quiet
  /\ UNCHANGED <<cache, writeQueue, writeTimer, version, readCounts, flushes, disk, temp, now,
                 alive>>
  /\ History

\* --------------------------------------------------------- loadFromDisk
\* a loadFromDisk that rethrows ENOENT as well
loadFromDiskThrows(l, f) ==
  IF f # NoFile /\ f.full THEN [l EXCEPT !.pc = "read", !.data = f.data]
  ELSE [l EXCEPT !.pc = "failed", !.data = Err]

\* lines 99-111: fs.readFile and JSON.parse: an absent file (ENOENT) is [], a
\* truncated file does not parse and the error is rethrown
loadFromDisk(l, f) ==
  IF f = NoFile THEN [l EXCEPT !.pc = "read", !.data = 0]
  ELSE IF f.full THEN [l EXCEPT !.pc = "read", !.data = f.data]
  ELSE [l EXCEPT !.pc = "failed", !.data = Err]

readFile(l) ==
  /\ alive
  /\ l.pc = "reading"
  /\ LET r == loadFromDisk(l, disk[l.table])
     IN  /\ loads' = (loads (-) One(l)) (+) One(r)
         /\ last' = IF l.kind = "get" THEN Step("read", l.table, r.data) ELSE Quiet
  /\ UNCHANGED <<cache, writeQueue, writeTimer, version, readCounts, flushes, disk, temp, now,
                 alive>>
  /\ History

\* a getData that counts and caches whatever its load settled with
HotAnyway(l, reads) == reads >= hotDataThreshold

\* lines 65-72: a load that threw skips the count and the cache; a load that
\* returned is cached from the hotDataThreshold-th read on
Hot(l, reads) == l.pc = "read" /\ reads >= hotDataThreshold

\* a count that advances by the number of callers the load served
countedPerCaller(l, n) == n + Len(l.callers)

\* line 66: (this.readCounts.get(table) || 0) + 1, in the call that started the load
counted(l, n) == n + 1

\* lines 64-77: the load of a getData call settles
getSettles(l) ==
  LET t == l.table
      reads == counted(l, readCounts[t])
      hot == Hot(l, reads)
  IN
  /\ alive
  /\ l.kind = "get"
  /\ l.pc \in {"read", "failed"}
  /\ readCounts' = IF l.pc = "read" THEN [readCounts EXCEPT ![t] = reads] ELSE readCounts
  /\ cache' = IF hot THEN addToCache(cache, t, l.data, version, now) ELSE cache
  /\ loads' = Held(pendingReadsDelete(Settled(loads, l), t))
  /\ last' = [Step("loaded", t, l.data) EXCEPT
                !.callers = l.callers,
                !.out = IF hot THEN Evicted(cache, NewEntry(t, l.data, version, now), cache')
                        ELSE {}]
  /\ UNCHANGED <<writeQueue, writeTimer, version, flushes, disk, temp, now, alive>>
  /\ History

\* a warmCache that caches what a failed load left
warmedAnyway(c, l, v, ts) == addToCache(c, l.table, l.data, v, ts)

\* lines 160-163: the data of a load that returned is cached, a load that threw
\* leaves the cache alone
warmed(c, l, v, ts) == IF l.pc = "read" THEN addToCache(c, l.table, l.data, v, ts) ELSE c

\* lines 159-165: the load of a warmCache call settles; a failure is swallowed
warmSettles(l) ==
  LET t == l.table
  IN
  /\ alive
  /\ l.kind = "warm"
  /\ l.pc \in {"read", "failed"}
  /\ cache' = warmed(cache, l, version, now)
  /\ loads' = loads (-) One(l)
  /\ last' = [Step("warmed", t, l.data) EXCEPT
                !.out = IF l.pc = "read"
                        THEN Evicted(cache, NewEntry(t, l.data, version, now), cache')
                        ELSE {}]
  /\ UNCHANGED <<writeQueue, writeTimer, version, readCounts, flushes, disk, temp, now, alive>>
  /\ History

\* something outside the provider leaves a table's file with content that
\* JSON.parse rejects
corrupt(t) ==
  /\ alive
  /\ disk[t].full
  /\ disk' = [disk EXCEPT ![t] = [data |-> 0, full |-> FALSE]]
  /\ last' = Quiet
  /\ UNCHANGED <<cache, writeQueue, writeTimer, version, readCounts, loads, flushes, temp, now,
                 alive>>
  /\ History

\* ---------------------------------------------------------- flushWrites
\* writeToDisk up to its first await: the snapshot is serialised, writeFile is issued
NewWrite(e) == [table |-> e.table, data |-> e.data, pc |-> "open", ino |-> "none"]

\* a flushWrites that leaves this.writeTimer as it is
flushWritesTimerKept(closer) ==
  /\ writeTimer' = writeTimer
  /\ flushes' = Append(flushes, [writes |-> [j \in 1..Len(writeQueue) |-> NewWrite(writeQueue[j])],
                                 closer |-> closer])
  /\ writeQueue' = <<>>

\* lines 136-143: the timer is reset, the queue is taken whole and emptied
flushWrites(closer) ==
  /\ writeTimer' = FALSE
  /\ flushes' = Append(flushes, [writes |-> [j \in 1..Len(writeQueue) |-> NewWrite(writeQueue[j])],
                                 closer |-> closer])
  /\ writeQueue' = <<>>

\* the setTimeout callback of line 95
timerFires ==
  /\ alive
  /\ writeTimer
  /\ flushWrites(FALSE)
  /\ last' = Step("flush", 0, 0)
  /\ UNCHANGED <<cache, version, readCounts, loads, disk, temp, now, alive>>
  /\ History

\* lines 167-175: with a timer set, close() flushes first and clears when that flush
\* has resolved; with no timer it clears at once
close ==
  /\ alive
  /\ IF writeTimer
     THEN /\ flushWrites(TRUE)
          /\ UNCHANGED <<cache, loads>>
     ELSE /\ cache' = <<>>
          /\ loads' = pendingReadsClear(loads)
          /\ UNCHANGED <<writeTimer, flushes, writeQueue>>
  /\ last' = IF writeTimer THEN Step("flush", 0, 0) ELSE Step("closed", 0, version)
  /\ UNCHANGED <<version, readCounts, disk, temp, now, alive>>
  /\ History

\* ---------------------------------------------------------- writeToDisk
\* fs.writeFile opens the temp path with O_CREAT|O_TRUNC: the path now names an
\* empty file that this call is filling
openTemp(b, j) ==
  LET w == flushes[b].writes[j]
  IN
  /\ alive
  /\ w.pc = "open"
  /\ temp' = [temp EXCEPT ![w.table] = [data |-> w.data, full |-> FALSE]]
  /\ flushes' = [flushes EXCEPT ![b].writes[j] = [w EXCEPT !.pc = "writing", !.ino = "temp"]]
  /\ last' = Quiet
  /\ UNCHANGED <<cache, writeQueue, writeTimer, version, readCounts, loads, disk, now, alive>>
  /\ History

\* fs.writeFile has written everything to the file it opened, wherever a rename
\* has moved that file meanwhile, and closes it
writeTemp(b, j) ==
  LET w == flushes[b].writes[j]
      f == [data |-> w.data, full |-> TRUE]
  IN
  /\ alive
  /\ w.pc = "writing"
  /\ temp' = IF w.ino = "temp" THEN [temp EXCEPT ![w.table] = f] ELSE temp
  /\ disk' = IF w.ino = "file" THEN [disk EXCEPT ![w.table] = f] ELSE disk
  /\ flushes' = [flushes EXCEPT ![b].writes[j] = [w EXCEPT !.pc = "rename", !.ino = "none"]]
  /\ last' = Quiet
  /\ UNCHANGED <<cache, writeQueue, writeTimer, version, readCounts, loads, now, alive>>
  /\ History

\* a writeToDisk that puts the snapshot back into the queue when it is rejected
writeFailsRequeued(b, j) ==
  LET w == flushes[b].writes[j]
  IN
  /\ alive
  /\ w.pc \in {"open", "writing"}
  /\ flushes' = [flushes EXCEPT ![b].writes[j] = [w EXCEPT !.pc = "failed", !.ino = "none"]]
  /\ writeQueue' = MapSet(writeQueue, [table |-> w.table, data |-> w.data])
  /\ last' = Step("failed", w.table, w.data)
  /\ UNCHANGED <<cache, writeTimer, version, readCounts, loads, disk, temp, now, alive>>
  /\ History

\* fs.writeFile is rejected by the operating system (no space, no permission):
\* what it has written so far stays in the temp file
writeFails(b, j) ==
  LET w == flushes[b].writes[j]
  IN
  /\ alive
  /\ w.pc \in {"open", "writing"}
  /\ flushes' = [flushes EXCEPT ![b].writes[j] = [w EXCEPT !.pc = "failed", !.ino = "none"]]
  /\ last' = Step("failed", w.table, w.data)
  /\ UNCHANGED <<cache, writeQueue, writeTimer, version, readCounts, loads, disk, temp, now,
                 alive>>
  /\ History

\* what a rename of t's temp file does to a file another call still has open
Moved(w, t) ==
  IF w.table # t THEN w
  ELSE IF w.ino = "temp" THEN [w EXCEPT !.ino = "file"]
  ELSE IF w.ino = "file" THEN [w EXCEPT !.ino = "gone"]
  ELSE w

\* fs.rename(tempPath, filePath): fails with ENOENT when the temp path is gone
renameTemp(b, j) ==
  LET w == flushes[b].writes[j]
      t == w.table
  IN
  /\ alive
  /\ w.pc = "rename"
  /\ IF temp[t] = NoFile
     THEN /\ flushes' = [flushes EXCEPT ![b].writes[j].pc = "failed"]
          /\ UNCHANGED <<disk, temp>>
     ELSE /\ disk' = [disk EXCEPT ![t] = temp[t]]
          /\ temp' = [temp EXCEPT ![t] = NoFile]
          /\ flushes' = [x \in 1..Len(flushes) |->
                          [flushes[x] EXCEPT !.writes =
                            [y \in 1..Len(flushes[x].writes) |->
                              IF x = b /\ y = j THEN [w EXCEPT !.pc = "done"]
                              ELSE Moved(flushes[x].writes[y], t)]]]
  /\ last' = IF temp[t] = NoFile THEN Step("enoent", t, w.data) ELSE Step("renamed", t, w.data)
  /\ UNCHANGED <<cache, writeQueue, writeTimer, version, readCounts, loads, now, alive>>
  /\ History

\* the newest snapshot of a batch: the last saveData before the batch was taken
Newest(ws) == CHOOSE d \in {ws[j].data : j \in 1..Len(ws)} : \A j \in 1..Len(ws) : ws[j].data <= d

flushSettlesAnyway(b) ==
  LET ws == flushes[b].writes
      ok == \A j \in 1..Len(ws) : ws[j].pc = "done"
      closed == ok /\ flushes[b].closer
  IN
  /\ alive
  /\ \A j \in 1..Len(ws) : ws[j].pc \in {"done", "failed"}
  /\ flushes' = RemoveAt(flushes, b)
  /\ IF ok /\ flushes[b].closer
     THEN /\ cache' = <<>>
          /\ loads' = pendingReadsClear(loads)
     ELSE UNCHANGED <<cache, loads>>
  /\ last' = [(IF closed THEN Step("closed", 0, Newest(ws)) ELSE Quiet) EXCEPT
                !.ev = [j \in 1..Len(ws) |-> ws[j].table],
                !.n = IF ok THEN 0 ELSE 1]
  /\ UNCHANGED <<writeQueue, writeTimer, version, readCounts, disk, temp, now, alive>>
  /\ History

\* lines 141-147: Promise.all has settled; when every write was renamed into place
\* the notifications go out, otherwise the flush is rejected, with the reason of
\* one rejected write (last.n: the failures the rejection tells of).  A close() that
\* awaited this flush goes on to line 173 only when it resolved, and resolves then.
flushSettles(b) ==
  LET ws == flushes[b].writes
      ok == \A j \in 1..Len(ws) : ws[j].pc = "done"
      closed == ok /\ flushes[b].closer
  IN
  /\ alive
  /\ \A j \in 1..Len(ws) : ws[j].pc \in {"done", "failed"}
  /\ flushes' = RemoveAt(flushes, b)
  /\ IF ok /\ flushes[b].closer
     THEN /\ cache' = <<>>
          /\ loads' = pendingReadsClear(loads)
     ELSE UNCHANGED <<cache, loads>>
  /\ last' = [(IF closed THEN Step("closed", 0, Newest(ws)) ELSE Quiet) EXCEPT
                !.ev = IF ok THEN [j \in 1..Len(ws) |-> ws[j].table] ELSE <<>>,
                !.n = IF ok THEN 0 ELSE 1]
  /\ UNCHANGED <<writeQueue, writeTimer, version, readCounts, disk, temp, now, alive>>
  /\ History

\* line 95: the timer's callback drops the promise of flushWrites.  When a write of
\* that flush is rejected, Promise.all rejects at once and nothing handles it: a
\* runtime that turns an unhandled rejection into an uncaught exception ends the
\* process there (another only warns, and the flush goes on to flushSettles).  The
\* variables keep what the process held when it ended.
unhandledRejection(b) ==
  /\ alive
  /\ ~flushes[b].closer
  /\ \E j \in 1..Len(flushes[b].writes) : flushes[b].writes[j].pc = "failed"
  /\ alive' = FALSE
  /\ last' = Step("aborted", 0, 0)
  /\ UNCHANGED <<cache, writeQueue, writeTimer, version, readCounts, loads, flushes, disk, temp,
                 now>>
  /\ History

\* ---------------------------------------------------------------- crash
\* the process stops: what is in memory is gone, the files stay as they are
crash ==
  /\ alive
  /\ flushes # <<>>
  /\ alive' = FALSE
  /\ cache' = <<>>
  /\ writeQueue' = <<>>
  /\ writeTimer' = FALSE
  /\ loads' = EmptyBag
  /\ flushes' = <<>>
  /\ last' = Quiet
  /\ UNCHANGED <<version, readCounts, disk, temp, now>>
  /\ History

\* the clock moves on
tick ==
  /\ alive
  /\ now < MaxTime
  /\ now' = now + 1
  /\ last' = Quiet
  /\ UNCHANGED <<cache, writeQueue, writeTimer, version, readCounts, loads, flushes, disk,
                 temp, alive>>
  /\ History

\* ------------------------------------------------ arrays and records
\* A snapshot is an array of references to records.  heap.val is the content of
\* each record, heap.passed the array a caller passed to saveData and still holds,
\* heap.cached the array in the table's cache entry (heap.has: there is one),
\* heap.got the array the last getData returned, and heap.put the content that the
\* snapshot had when saveData was called.
Objs == 1..MaxObjs

Arrays == UNION {[1..n -> Objs] : n \in 0..MaxObjs}

NoHeap == [val |-> [o \in Objs |-> 0], passed |-> <<>>, cached |-> <<>>, has |-> FALSE,
           got |-> <<>>, put |-> <<>>]

\* what an array holds: the content of the records it refers to
Content(h, arr) == [i \in 1..Len(arr) |-> h.val[arr[i]]]

\* [...data]: a new array with the same references
Spread(arr) == [i \in 1..Len(arr) |-> arr[i]]

\* lines 90 and 114-118: saveData(table, arr) caches Object.freeze([...arr])
heapPut(arr) ==
  /\ heap' = [heap EXCEPT !.passed = arr, !.cached = Spread(arr), !.has = TRUE,
                          !.put = Content(heap, arr)]
  /\ UNCHANGED <<provider, idx>>

\* line 53: a getData served from the cache returns [...cached.data]
heapGet ==
  /\ heap.has
  /\ heap' = [heap EXCEPT !.got = Spread(heap.cached)]
  /\ UNCHANGED <<provider, idx>>

\* the caller changes the array it got (push, pop, assignment to an element)
changeGot(arr) ==
  /\ heap.has
  /\ arr # heap.got
  /\ heap' = [heap EXCEPT !.got = arr]
  /\ UNCHANGED <<provider, idx>>

\* the caller changes the array it passed, after saveData has returned
changePassed(arr) ==
  /\ heap.has
  /\ arr # heap.passed
  /\ heap' = [heap EXCEPT !.passed = arr]
  /\ UNCHANGED <<provider, idx>>

\* the caller assigns to a field of a record it reaches through one of its arrays
changeRecord(o) ==
  /\ o \in Range(heap.passed) \cup Range(heap.got)
  /\ heap' = [heap EXCEPT !.val[o] = 1 - @]
  /\ UNCHANGED <<provider, idx>>

\* ------------------------------------------------- createIndex, queryRange
\* A record is its position in the table when it was saved (id) and the value of
\* the indexed field (f).  idx.data is the table, idx.index the index file
\* (has: it exists), idx.min and idx.max the bounds of the last queryRange,
\* idx.out what it returned and idx.via how ("index", "scan", or "none": no query).
Vals == 1..MaxVal

\* the bounds a query may give: the values of the field, one below and one above
Keys == 0..MaxVal + 1

Fields == UNION {[1..n -> Vals] : n \in 0..MaxLen}

Rows(fs) == [i \in 1..Len(fs) |-> [id |-> i, f |-> fs[i]]]

NoIdx == [data |-> <<>>, index |-> [has |-> FALSE, rows |-> <<>>], min |-> 0, max |-> 0,
          out |-> <<>>, via |-> "none"]

\* lines 179-183: Array.prototype.sort with the comparator on the field, which is
\* stable: a record goes behind the records that are not greater
RECURSIVE insertByField(_, _)
insertByField(sorted, r) ==
  IF sorted = <<>> THEN <<r>>
  ELSE IF r.f < sorted[Len(sorted)].f
       THEN Append(insertByField(SubSeq(sorted, 1, Len(sorted) - 1), r), sorted[Len(sorted)])
       ELSE Append(sorted, r)

RECURSIVE sortByField(_)
sortByField(data) ==
  IF data = <<>> THEN <<>>
  ELSE insertByField(sortByField(SubSeq(data, 1, Len(data) - 1)), data[Len(data)])

\* a search that passes over the records equal to the bound
matchesStrict(midValue, value, findFirst) ==
  IF findFirst THEN midValue > value ELSE midValue < value

\* lines 217 and 224: the test on the middle record
matches(midValue, value, findFirst) ==
  IF findFirst THEN midValue >= value ELSE midValue <= value

\* lines 211-229: the loop of binarySearch; positions count from 0 as in the code
RECURSIVE search(_, _, _, _, _, _)
search(arr, value, findFirst, left, right, result) ==
  IF left > right THEN result
  ELSE LET mid == (left + right) \div 2
           midValue == arr[mid + 1].f
       IN  IF matches(midValue, value, findFirst)
           THEN IF findFirst THEN search(arr, value, findFirst, left, mid - 1, mid)
                ELSE search(arr, value, findFirst, mid + 1, right, mid)
           ELSE IF findFirst THEN search(arr, value, findFirst, mid + 1, right, result)
                ELSE search(arr, value, findFirst, left, mid - 1, result)

\* a search for the last position that starts from the last row
binarySearchFromEnd(arr, value, findFirst) ==
  search(arr, value, findFirst, 0, Len(arr) - 1, IF findFirst THEN Len(arr) ELSE Len(arr) - 1)

\* lines 206-233
binarySearch(arr, value, findFirst) ==
  search(arr, value, findFirst, 0, Len(arr) - 1, IF findFirst THEN Len(arr) ELSE -1)

\* Array.prototype.slice(from, to): the positions from .. to - 1, counted from 0
slice(arr, from, to) == SubSeq(arr, from + 1, Min(to, Len(arr)))

InRange(r, min, max) == r.f >= min /\ r.f <= max

\* lines 193-199: the answer from the index file
fromIndex(sorted, min, max) ==
  slice(sorted, binarySearch(sorted, min, TRUE), binarySearch(sorted, max, FALSE) + 1)

\* lines 201-202: without the index file, the answer from the table
fromScan(data, min, max) == SelectSeq(data, LAMBDA r : InRange(r, min, max))

\* saveData of the table that is indexed
tableSaved(fs) ==
  /\ alive
  /\ Rows(fs) # idx.data
  /\ idx' = [idx EXCEPT !.data = Rows(fs), !.out = <<>>, !.via = "none"]
  /\ UNCHANGED <<provider, heap>>

\* lines 177-187
createIndex ==
  /\ alive
  /\ idx' = [idx EXCEPT !.index = [has |-> TRUE, rows |-> sortByField(idx.data)]]
  /\ UNCHANGED <<provider, heap>>

\* lines 189-204
queryRange(min, max) ==
  /\ alive
  /\ idx' = [idx EXCEPT
               !.min = min, !.max = max,
               !.via = IF idx.index.has THEN "index" ELSE "scan",
               !.out = IF idx.index.has THEN fromIndex(idx.index.rows, min, max)
                       ELSE fromScan(idx.data, min, max)]
  /\ UNCHANGED <<provider, heap>>

\* ------------------------------------------------------------------ runs
Bounds(tables, puts, inflight, callers, flushing, track) ==
  [tables |-> tables, puts |-> puts, loads |-> inflight, callers |-> callers,
   flushes |-> flushing, track |-> track]

\* a provider that has so far only served reads of table 1 while it had no file
Started ==
  /\ writeQueue = <<>>
  /\ writeTimer = FALSE
  /\ version = 0
  /\ \E r \in {0, hotDataThreshold - 1} : readCounts = [t \in Tables |-> IF t = 1 THEN r ELSE 0]
  /\ loads = EmptyBag
  /\ flushes = <<>>
  /\ disk = [t \in Tables |-> NoFile]
  /\ temp = [t \in Tables |-> NoFile]
  /\ alive = TRUE
  /\ heap = NoHeap
  /\ adds = NoAdds
  /\ idx = NoIdx
  /\ lastPut = [t \in Tables |-> 0]
  /\ got = [t \in Tables |-> -1]
  /\ winPuts = [t \in Tables |-> 0]
  /\ timers = <<>>
  /\ late = [t \in Tables |-> 0]
  /\ lost = [t \in Tables |-> 0]
  /\ writeFailed = FALSE
  /\ last = Quiet

Boot == Started /\ cache = <<>> /\ now = 0

\* what the bounds of the run allow
Called == 1..lim.tables
MayPut == version < lim.puts
MayFlush == Len(flushes) < lim.flushes
MayJoin(t) == \A l \in Pending(t) : Len(l.callers) < lim.callers
BaseReads(t) == IF readCounts[t] >= hotDataThreshold - 1 THEN hotDataThreshold - 1 ELSE 0
MayLoad(t) ==
  /\ BagCardinality(loads) < lim.loads
  /\ readCounts[t] + InFlight({l \in LoadsOf(t) : l.kind = "get"}) < BaseReads(t) + MaxReads
MayWarm(P) == BagCardinality(loads) + Cardinality(P) <= lim.loads

Callers ==
  \/ \E t \in Called : MayPut /\ saveData(t)
  \/ \E t \in Called : getCached(t)
  \/ \E t \in Called : MayJoin(t) /\ getPending(t)
  \/ \E t \in Called : MayLoad(t) /\ getLoad(t)
  \/ \E P \in SUBSET Called \ {{}} : MayWarm(P) /\ connect(P)
  \/ (writeTimer => MayFlush) /\ close

Reads ==
  \/ \E l \in BagToSet(loads) : readFile(l)
  \/ \E l \in BagToSet(loads) : getSettles(l)
  \/ \E l \in BagToSet(loads) : warmSettles(l)

Writes ==
  \/ MayFlush /\ timerFires
  \/ \E b \in 1..Len(flushes) : \E j \in 1..Len(flushes[b].writes) : openTemp(b, j)
  \/ \E b \in 1..Len(flushes) : \E j \in 1..Len(flushes[b].writes) : writeTemp(b, j)
  \/ \E b \in 1..Len(flushes) : \E j \in 1..Len(flushes[b].writes) : renameTemp(b, j)
  \/ \E b \in 1..Len(flushes) : flushSettles(b)

\* every operation on one table, with the history kept
Init == Boot /\ lim = Bounds(FewTables, FewPuts, MaxLoads, MaxCallers, FewFlushes, TRUE)

Next == Callers \/ Reads \/ Writes \/ crash

Spec == Init /\ [][Next]_vars

\* the callers and the read path; close() is called with no timer armed
InitRead == Boot /\ lim = Bounds(FewTables, FewPuts, FewLoads, MaxCallers, 0, FALSE)

NextRead == Callers \/ Reads

SpecRead == InitRead /\ [][NextRead]_vars

\* the write path: saveData, the flusher, close and a crash
InitStore == Boot /\ lim = Bounds(FewTables, MaxPuts, 0, 0, MaxFlushes, TRUE)

NextStore ==
  \/ \E t \in Called : MayPut /\ saveData(t)
  \/ (writeTimer => MayFlush) /\ close
  \/ Writes
  \/ crash

SpecStore == InitStore /\ [][NextStore]_vars

\* a cache that connect() has filled close to the high-water mark by preloading
\* tables that had no file: table 1 or not, then the further tables, which were
\* all loaded at time 0 or alternately at times 0 and 1
Filler(i, mixed) == NewEntry(NTables + i, 0, 0, IF mixed THEN i % 2 ELSE 0)

InitEvict ==
  /\ Started
  /\ now = 1
  /\ \E pre \in {<<>>, <<NewEntry(1, 0, 0, 0)>>} : \E mixed \in BOOLEAN :
       cache = pre \o [i \in 1..Min(NFill, HighWater - Len(pre)) |-> Filler(i, mixed)]
  /\ lim = Bounds(NTables, FewPuts, FewLoads, 0, 0, FALSE)

\* the operations that touch the cache, and the clock
NextEvict ==
  \/ \E t \in Called : MayPut /\ saveData(t)
  \/ \E t \in Called : getCached(t)
  \/ \E t \in Called : MayLoad(t) /\ getLoad(t)
  \/ \E P \in SUBSET Called \ {{}} : MayWarm(P) /\ connect(P)
  \/ (writeTimer => MayFlush) /\ close
  \/ Reads
  \/ tick

SpecEvict == InitEvict /\ [][NextEvict]_vars

\* the same operations on a cache whose entries were all cached in the
\* millisecond that is still running
InitTie ==
  /\ Started
  /\ now = 0
  /\ \E pre \in {<<>>, <<NewEntry(1, 0, 0, 0)>>} :
       cache = pre \o [i \in 1..Min(NFill, HighWater - Len(pre)) |-> Filler(i, FALSE)]
  /\ lim = Bounds(NTables, FewPuts, FewLoads, 0, 0, FALSE)

SpecTie == InitTie /\ [][NextEvict]_vars

\* the write path on several tables, one flush at a time, where the operating
\* system may reject a writeFile
InitFail == Boot /\ lim = Bounds(NTables, MaxPuts, 0, 0, FewFlushes, TRUE)

NextFail ==
  \/ NextStore
  \/ \E b \in 1..Len(flushes) : \E j \in 1..Len(flushes[b].writes) : writeFails(b, j)
  \/ \E b \in 1..Len(flushes) : unhandledRejection(b)

SpecFail == InitFail /\ [][NextFail]_vars

\* a cache that connect() has filled to the high-water mark within one tick of the
\* clock, table 1 first; the callers go on within the same tick
InitBurst ==
  /\ Started
  /\ now = 0
  /\ cache = <<NewEntry(1, 0, 0, 0)>> \o [i \in 1..Min(NFill, HighWater - 1) |-> Filler(i, FALSE)]
  /\ lim = Bounds(NTables, MaxPuts, FewLoads, 0, 0, TRUE)

\* puts and gets, with the loads of the gets
NextBurst ==
  \/ \E t \in Called : MayPut /\ saveData(t)
  \/ \E t \in Called : getCached(t)
  \/ \E t \in Called : MayLoad(t) /\ getLoad(t)
  \/ \E l \in BagToSet(loads) : readFile(l)
  \/ \E l \in BagToSet(loads) : getSettles(l)

SpecBurst == InitBurst /\ [][NextBurst]_vars

\* what loadFromDisk returns for a table as its file stands
FileOf(t) == IF t \in Tables THEN disk[t] ELSE NoFile

Stored(t) == IF FileOf(t) = NoFile THEN 0 ELSE IF FileOf(t).full THEN FileOf(t).data ELSE Err

\* the callers and the read path on several tables whose files may be unreadable
InitCorrupt == Boot /\ lim = Bounds(NTables, FewPuts, FewLoads, MaxCallers, 0, TRUE)

NextCorrupt ==
  \/ NextRead
  \/ \E t \in Called : corrupt(t)

SpecCorrupt == InitCorrupt /\ [][NextCorrupt]_vars

\* concurrent add() calls on the DbSet of table 1, which no one else uses, and
\* the flusher
InitAdd == Boot /\ lim = Bounds(FewTables, MaxAdds, FewLoads, 0, FewFlushes, FALSE)

NextAdd ==
  \/ \E i \in Adders : addCalled(i)
  \/ Entering(adds) # {} /\ getCached(1)
  \/ Entering(adds) # {} /\ getLoad(1)
  \/ Saving(adds) # {} /\ saveData(1)
  \/ \E l \in BagToSet(loads) : readFile(l)
  \/ \E l \in BagToSet(loads) : getSettles(l)
  \/ Writes

SpecAdd == InitAdd /\ [][NextAdd]_vars

\* add() and update() calls on the DbSet of table 1, with and without keys
InitSet == Boot /\ lim = Bounds(FewTables, MaxAdds, FewLoads, 0, FewFlushes, FALSE)

NextSet ==
  \/ \E i \in Adders : \E arg \in 0..MaxKey : setCalled(i, "add", arg)
  \/ \E i \in Adders : \E arg \in 1..MaxKey : setCalled(i, "update", arg)
  \/ \E i \in Adders : updateFails(i)
  \/ Entering(adds) # {} /\ getCached(1)
  \/ Entering(adds) # {} /\ getLoad(1)
  \/ Saving(adds) # {} /\ saveData(1)
  \/ \E l \in BagToSet(loads) : readFile(l)
  \/ \E l \in BagToSet(loads) : getSettles(l)
  \/ Writes

SpecSet == InitSet /\ [][NextSet]_vars

\* the same calls, where the event loop runs every continuation that is ready and
\* every file operation comes to an end
FairSet ==
  /\ WF_vars(\E i \in Adders : updateFails(i))
  /\ WF_vars(Entering(adds) # {} /\ (getCached(1) \/ getLoad(1)))
  /\ WF_vars(Saving(adds) # {} /\ saveData(1))
  /\ WF_vars(\E l \in BagToSet(loads) : readFile(l) \/ getSettles(l))
  /\ WF_vars(Writes)

SpecLock == InitSet /\ [][NextSet]_vars /\ FairSet

\* the keys of the records getData(1) would return now
TableKeys == adds.snap[IF InCache(cache, 1) THEN CacheEntry(cache, 1).data ELSE Stored(1)]

\* a table that is saved, then indexed, then queried by range
InitIndex == Boot /\ lim = Bounds(0, 0, 0, 0, 0, FALSE)

NextIndex ==
  \/ \E fs \in Fields : ~idx.index.has /\ tableSaved(fs)
  \/ ~idx.index.has /\ createIndex
  \/ \E min, max \in Keys : queryRange(min, max)

SpecIndex == InitIndex /\ [][NextIndex]_vars

\* connect() with a preload list, called once on a provider that nothing else
\* uses: the list is the tables 1..lim.tables and the further tables, whose
\* warmCache calls have settled already; a file of the list may be unreadable
Preloaded == [i \in 1..NFill |-> Filler(i, FALSE)]

Listed == Called \cup CacheTables(Preloaded)

InitConnect ==
  /\ Started
  /\ now = 0
  /\ cache = Preloaded
  /\ \E n \in 1..NTables : lim = Bounds(n, 0, NTables, 0, 0, FALSE)

Connecting == \E l \in BagToSet(loads) : l.kind = "warm"

NextConnect ==
  \/ \E t \in Called : loads = EmptyBag /\ last.op = "none" /\ corrupt(t)
  \/ loads = EmptyBag /\ last.op = "none" /\ connect(Called)
  \/ \E l \in BagToSet(loads) : readFile(l)
  \/ \E l \in BagToSet(loads) : warmSettles(l)

SpecConnect == InitConnect /\ [][NextConnect]_vars

\* the last warmCache call of connect() has settled: Promise.all resolves
Connected == last.op = "warmed" /\ ~Connecting

\* puts and gets on a full cache, with the loads of the gets and the flusher, one
\* flush at a time
InitSpill ==
  /\ Started
  /\ now = 0
  /\ cache = <<NewEntry(1, 0, 0, 0)>> \o [i \in 1..Min(NFill, HighWater - 1) |-> Filler(i, FALSE)]
  /\ lim = Bounds(NTables, FewPuts + 1, FewLoads, MaxCallers, FewFlushes, TRUE)

NextSpill ==
  \/ NextBurst
  \/ \E t \in Called : MayJoin(t) /\ getPending(t)
  \/ Writes

SpecSpill == InitSpill /\ [][NextSpill]_vars

\* where the last snapshot put to a table is: in the write queue, in a write of a
\* flush in flight, in the file
Queued(t) == \E i \in 1..Len(writeQueue) : writeQueue[i] = [table |-> t, data |-> lastPut[t]]

Writing(t) ==
  \E b \in 1..Len(flushes) : \E j \in 1..Len(flushes[b].writes) :
    flushes[b].writes[j].table = t /\ flushes[b].writes[j].data = lastPut[t]

Flushed(t) == disk[t] = [data |-> lastPut[t], full |-> TRUE] /\ ~Queued(t) /\ ~Writing(t)

\* the write path with rejected writes, and the gets served from the cache
NextLost ==
  \/ NextFail
  \/ \E t \in Called : getCached(t)

InitLost == Boot /\ lim = Bounds(NTables, MaxPuts, 0, 0, MaxFlushes, TRUE)

SpecLost == InitLost /\ [][NextLost]_vars

\* the write path while the clock moves on
InitTimer == Boot /\ lim = Bounds(FewTables, MaxPuts, 0, 0, FewFlushes, TRUE)

NextTimer ==
  \/ NextStore
  \/ tick

SpecTimer == InitTimer /\ [][NextTimer]_vars

\* a caller, its arrays and records, and the cache entry of one table
InitHeap == Boot /\ lim = Bounds(0, 0, 0, 0, 0, FALSE)

NextHeap ==
  \/ \E arr \in Arrays : heapPut(arr)
  \/ heapGet
  \/ \E arr \in Arrays : changeGot(arr)
  \/ \E arr \in Arrays : changePassed(arr)
  \/ \E o \in Objs : changeRecord(o)

SpecHeap == InitHeap /\ [][NextHeap]_vars

\* ------------------------------------------------------------- claims
\* C1: a getData of a table that comes right after the saveData of that table, with
\* no step in between, is served from the cache and returns the snapshot just put,
\* whatever the cache holds and whatever loads are in flight.
C1_ReadAfterWrite == last.fresh => last.op = "hit" /\ last.data = version

\* the put has pushed the cache over the high-water mark and the get follows it
C1_Witness == last.fresh /\ last.op = "hit" /\ Len(cache) = LowWater

\* C2: a getData called after saveData(T, S) and before the next saveData of T
\* returns S.
C2_ReadYourWrite ==
  last.op \in {"hit", "loaded"} =>
    \A i \in 1..Len(last.callers) : last.callers[i] = 0 \/ last.data = last.callers[i]

\* C3: once the puts have stopped and every flush has finished without a rejected
\* write, the file of each table that was put holds the last snapshot put to it.
C3_NoLostWrite ==
  alive /\ ~writeTimer /\ writeQueue = <<>> /\ flushes = <<>> /\ ~writeFailed =>
    \A t \in Tables : lastPut[t] > 0 => disk[t] = [data |-> lastPut[t], full |-> TRUE]

\* C4: the getData calls that follow one another on a table that was neither cached
\* nor loading when the first of them came share one load: one load of the table is
\* in flight, it is the registered one, and every one of the callers waits on it (so
\* that getSettles hands them all the one result).
C4_ReadCoalescing ==
  last.op \in {"start", "join"} /\ last.n >= 1 =>
    /\ InFlight(LoadsOf(last.table)) = 1
    /\ \A l \in LoadsOf(last.table) : l.reg /\ Len(l.callers) = last.n

C4_Witness == last.op = "join" /\ last.n = MaxCallers /\ InFlight(LoadsOf(last.table)) = 1

\* C5: at most one load of any one table is in flight.
C5_OneLoadPerTable == \A t \in Tables : InFlight(LoadsOf(t)) <= 1

\* C6: when a flush takes the queue, each table that was put in the debounce window
\* it ends has exactly one write in the batch, of the last snapshot put to it, and a
\* table that was not put has none.
C6_WriteCoalescing ==
  last.op = "flush" =>
    LET batch == flushes[Len(flushes)].writes
    IN  \A t \in Tables :
          LET mine == {j \in 1..Len(batch) : batch[j].table = t}
          IN  /\ Cardinality(mine) = IF winPuts[t] >= 1 THEN 1 ELSE 0
              /\ \A j \in mine : batch[j].data = lastPut[t] /\ batch[j].pc = "open"

C6_Witness ==
  /\ last.op = "flush"
  /\ \E t \in Tables : winPuts[t] >= 2 /\ \E w \in Range(flushes[Len(flushes)].writes) :
                                           w.table = t /\ w.data = lastPut[t]

\* C7: the file of a table is never a partial snapshot, whether the process is
\* running or has stopped.
C7_TargetNeverPartial == \A t \in Tables : disk[t].full

\* C8: a getData served from the cache never returns a snapshot older than one that
\* an earlier getData of the table served from the cache has returned.
C8_MonotonicReads == last.op = "hit" => last.data >= got[last.table]

\* C9: when an operation's eviction has run, the cache holds at most HighWater
\* tables.
C9_EvictionBound == Len(cache) <= HighWater

C9_Witness == Cardinality(last.out) = HighWater + 1 - LowWater /\ last.op \in {"put", "loaded", "warmed"}

\* C10: every entry an eviction has removed was last accessed no later than every
\* entry it has kept, and a getData served from the cache sets the entry's last
\* access to the time of the call.
C10_LruOrder ==
  /\ \A r \in last.out : \A i \in 1..Len(cache) : r.lastAccess <= cache[i].lastAccess
  /\ last.op = "hit" => CacheEntry(cache, last.table).lastAccess = now

\* table 1 was preloaded first, has been read since, and has outlived an eviction
C10_Witness ==
  /\ last.out # {}
  /\ InCache(cache, 1)
  /\ CacheEntry(cache, 1).version = 0
  /\ \E r \in last.out : r.lastAccess < CacheEntry(cache, 1).lastAccess

\* C11: a saveData of one table leaves what a getData of any other table returns as
\* it was: an entry of another table that the put's eviction removes holds what the
\* table's file holds, so the next getData loads the same snapshot; and the put
\* queues a write of its own table only.
C11_PutFrame ==
  last.op = "put" =>
    /\ \A r \in last.out : r.table # last.table => r.data = Stored(r.table)
    /\ \A i \in 1..Len(writeQueue) :
         writeQueue[i].table # last.table => writeQueue[i].data = lastPut[writeQueue[i].table]

\* C12: when close() has resolved, no write was rejected and nothing was put since
\* close() was called, the file of every table that was put holds the last snapshot
\* put to it.  (last.data is the number of saveData calls made when close() was
\* called.)
C12_CloseDurable ==
  last.op = "closed" /\ last.data = version /\ ~writeFailed =>
    \A t \in Tables : lastPut[t] > 0 => disk[t] = [data |-> lastPut[t], full |-> TRUE]

\* C13: when the write of one table of a batch has failed, the other tables of the
\* batch are still written: the process does not end over the failure while
\* another write of a batch is unfinished.
C13_FlushIsolation ==
  last.op = "aborted" =>
    \A b \in 1..Len(flushes) : \A j \in 1..Len(flushes[b].writes) :
      flushes[b].writes[j].pc \in {"done", "failed"}

C15_CacheOwnsSnapshot == heap.has => Content(heap, heap.cached) = heap.put

\* C16: the load of a getData call that finds no file settles with the empty
\* snapshot, which every caller sharing the load receives, and no step of a getData
\* call (cache hit, joining a load, starting a load, reading the file, settling)
\* changes a file, a temporary file or the write queue.
C16_GetAbsentFrame ==
  [][/\ last'.op = "loaded" /\ disk[last'.table] = NoFile => last'.data = 0
     /\ last'.op \in {"hit", "join", "start", "read", "loaded"} =>
          UNCHANGED <<disk, temp, writeQueue>>]_vars

C16_Witness ==
  /\ last.op = "loaded"
  /\ disk[last.table] = NoFile
  /\ Len(last.callers) = MaxCallers
  /\ last.data = 0

\* C17: when the load of a getData call settles with an error other than ENOENT,
\* the error goes to every caller that shares the load, and the cache (so nothing
\* is cached for the table, and no other entry changes), the write queue and the
\* files are as they were.
C17_LoadFailure ==
  [][last'.op = "loaded" /\ last'.data = Err =>
       /\ \E l \in LoadsOf(last'.table) : l.pc = "failed" /\ last'.callers = l.callers
       /\ UNCHANGED <<cache, writeQueue, disk, temp>>]_vars

C17_Witness ==
  /\ last.op = "loaded"
  /\ last.data = Err
  /\ Len(last.callers) = MaxCallers
  /\ \E t \in Tables \ {last.table} : InCache(cache, t) /\ writeQueue # <<>>

\* C18: once all the concurrent add() calls on the table have resolved, the keys
\* they returned are pairwise distinct and the table holds a record under each.
C18_ConcurrentAdds ==
  (\A i \in Adders : adds.pc[i] = "done") =>
    /\ \A i, j \in Adders : adds.key[i] = adds.key[j] => i = j
    /\ \A i \in Adders : adds.key[i] \in Range(TableKeys)
    /\ Len(TableKeys) = MaxAdds

C18_Witness ==
  /\ \A i \in Adders : adds.pc[i] = "done"
  /\ adds.prev[1] = MaxAdds
  /\ Len(TableKeys) = MaxAdds

\* C19: a range query answered from an index that was built on the table as it
\* stands returns what the full scan of the table returns for the same bounds:
\* the same records in the same order.
C19_IndexMatchesScan ==
  idx.via = "index" /\ idx.index.rows = sortByField(idx.data) =>
    idx.out = fromScan(idx.data, idx.min, idx.max)

\* C20: a range query answered from the index returns the records of the index
\* whose field lies between the bounds, both included, in the order of the index;
\* so nothing when no record lies between them, when the index is empty, or when
\* min is greater than max.
C20_IndexRange ==
  idx.via = "index" =>
    idx.out = SelectSeq(idx.index.rows, LAMBDA r : InRange(r, idx.min, idx.max))

C20_Witness ==
  /\ idx.via = "index"
  /\ Len(idx.index.rows) = MaxLen
  /\ Len(idx.out) = 2
  /\ idx.out[1].f = idx.min
  /\ idx.out[2].f = idx.max
  /\ idx.min < idx.max

C22_UpdateMissing ==
  [][\A i \in Adders :
       /\ adds.op[i] = "update"
       /\ adds.pc[i] = "got"
       /\ adds.arg[i] \notin Range(adds.snap[adds.data[i]])
       /\ adds'.pc[i] # "got"
       => /\ adds'.pc[i] = "failed"
          /\ TableKeys' = TableKeys
          /\ UNCHANGED <<version, writeQueue>>]_vars

C22_Witness ==
  \E i \in Adders :
    /\ adds.op[i] = "update"
    /\ adds.pc[i] = "failed"
    /\ version = 1
    /\ TableKeys # <<>>
    /\ adds.arg[i] \notin Range(TableKeys)

\* C23: an add() of an entity without a key returns a key that is greater by one
\* than the greatest key in the table it read (1 for an empty table), so a key no
\* record of the table has; an add() of an entity with a key returns that key; and
\* the table it saves is the table it read with the new key at the end.
C23_AutoIncrement ==
  \A i \in Adders :
    adds.op[i] = "add" /\ adds.pc[i] = "done" =>
      LET before == Range(adds.snap[adds.data[i]]) \cup {0}
      IN  /\ adds.arg[i] # 0 => adds.key[i] = adds.arg[i]
          /\ adds.arg[i] = 0 =>
               /\ adds.key[i] \notin before
               /\ adds.key[i] - 1 \in before
               /\ \A k \in before : k < adds.key[i]

C23_Witness ==
  \E i, j \in Adders :
    /\ adds.op[i] = "add" /\ adds.pc[i] = "done" /\ adds.arg[i] = MaxKey
    /\ adds.op[j] = "add" /\ adds.pc[j] = "done" /\ adds.arg[j] = 0
    /\ adds.key[j] = MaxKey + 1
    /\ TableKeys = <<MaxKey, MaxKey + 1>>

\* C24: at most one timer is pending, and this.writeTimer holds it; a saveData
\* that finds a timer pending leaves it due at the time it was due before.
C24_OneTimer ==
  [][/\ Len(timers') = (IF writeTimer' THEN 1 ELSE 0)
     /\ last'.op = "put" /\ timers # <<>> => timers' = timers]_vars

C24_Witness == last.op = "put" /\ winPuts[last.table] = 2 /\ timers = <<writeDelay>> /\ now > 0

\* C25: a flush leaves the write queue empty; a saveData that comes while flushes
\* are in flight is in none of their batches, is in the queue and has a timer set;
\* and once the timer has fired and every flush has finished without a rejected
\* write, the file of its table holds its snapshot, unless a later saveData of
\* the table replaced it.
C25_LatePutPersisted ==
  /\ last.op = "flush" => writeQueue = <<>>
  /\ last.op = "put" /\ flushes # <<>> =>
       /\ \E i \in 1..Len(writeQueue) : writeQueue[i] = [table |-> last.table, data |-> last.data]
       /\ writeTimer
       /\ \A b \in 1..Len(flushes) : \A j \in 1..Len(flushes[b].writes) :
            flushes[b].writes[j].data # last.data
  /\ alive /\ ~writeTimer /\ writeQueue = <<>> /\ flushes = <<>> /\ ~writeFailed =>
       \A t \in Tables :
         late[t] > 0 /\ late[t] = lastPut[t] => disk[t] = [data |-> late[t], full |-> TRUE]

\* C26: the last snapshot put to a table that is no longer in the cache is still
\* in the write queue, or in a write of the flush that took it, or in the file; and
\* a getData called when the flush has put it in the file returns it, whether the
\* call is served from the cache or joins a load that has read the file.
C26_EvictedThenFlushed ==
  /\ \A t \in Tables :
       lastPut[t] > 0 /\ ~InCache(cache, t) =>
         Queued(t) \/ Writing(t) \/ disk[t] = [data |-> lastPut[t], full |-> TRUE]
  /\ last.op = "hit" /\ lastPut[last.table] > 0 /\ Flushed(last.table) =>
       last.data = lastPut[last.table]
  /\ last.op = "join" /\ lastPut[last.table] > 0 /\ Flushed(last.table) =>
       \A l \in Pending(last.table) : l.pc = "read" => l.data = lastPut[last.table]

\* C27: when a flush settles, a 'write-complete' event goes out for every table
\* of its batch whose write was renamed into place, whatever became of the other
\* writes of the batch.
C27_CompleteDespiteFailure ==
  [][\A b \in 1..Len(flushes) :
       alive' /\ flushes' = RemoveAt(flushes, b) =>
         \A j \in 1..Len(flushes[b].writes) :
           flushes[b].writes[j].pc = "done" => flushes[b].writes[j].table \in Range(last'.ev)]_vars

\* C28: the process does not end over a rejected write, and the rejection of a
\* flush tells of every write of its batch that failed.
C28_FailuresReported ==
  [][/\ last'.op # "aborted"
     /\ \A b \in 1..Len(flushes) :
          alive' /\ flushes' = RemoveAt(flushes, b) =>
            last'.n = Cardinality({j \in 1..Len(flushes[b].writes) :
                                    flushes[b].writes[j].pc = "failed"})]_vars

\* C29: after the write of a table's snapshot was rejected, and as long as nothing
\* more is put to the table, the write queue has no entry for the table, no flush
\* writes the snapshot again, and the cache entry of the table, which a getData
\* served from the cache returns, holds the snapshot.
C29_NoRetry ==
  \A t \in Tables :
    lost[t] > 0 /\ lost[t] = lastPut[t] =>
      /\ \A i \in 1..Len(writeQueue) : writeQueue[i].table # t
      /\ \A b \in 1..Len(flushes) : \A j \in 1..Len(flushes[b].writes) :
           flushes[b].writes[j].table = t /\ flushes[b].writes[j].data = lost[t] =>
             flushes[b].writes[j].pc = "failed"
      /\ InCache(cache, t) => CacheEntry(cache, t).data = lost[t]
      /\ last.op = "hit" /\ last.table = t => last.data = lost[t]

C29_Witness ==
  /\ alive
  /\ last.op = "hit"
  /\ lost[last.table] = lastPut[last.table]
  /\ last.data = lost[last.table]
  /\ flushes = <<>>
  /\ version = MaxPuts

\* C30: the version counter never decreases, every saveData raises it by exactly
\* one and no other step changes it; no cache entry carries a version above the
\* counter, and the entry a saveData caches carries the counter's new value.
C30_VersionCounter ==
  [][/\ version' >= version
     /\ version' = version + (IF last'.op = "put" THEN 1 ELSE 0)
     /\ \A i \in 1..Len(cache') : cache'[i].version <= version'
     /\ last'.op = "put" =>
          /\ InCache(cache', last'.table)
          /\ CacheEntry(cache', last'.table).version = version']_vars

C30_Witness ==
  /\ last.op = "put"
  /\ version = FewPuts + 1
  /\ CacheEntry(cache, last.table).version = version
  /\ \E i \in 1..Len(cache) : cache[i].version = version - 1

\* C31: a step that caches a table removes other tables from the cache only when
\* the cache held HighWater tables and the table was not among them, and it then
\* leaves LowWater tables; when the cache holds the table already, or fewer than
\* HighWater tables, the step removes nothing.
C31_Hysteresis ==
  [][last'.op \in {"put", "loaded", "warmed"} =>
       LET gone == CacheTables(cache) \ CacheTables(cache')
           room == Len(cache) < HighWater \/ InCache(cache, last'.table)
       IN  /\ gone # {} => ~room /\ Len(cache') = LowWater
           /\ room => gone = {} /\ last'.out = {} /\ Len(cache') >= Len(cache)
           /\ ~room /\ InCache(cache', last'.table) => Len(cache') = LowWater]_vars

\* a put has found the cache at the high-water mark and set off an eviction
C31_Witness ==
  /\ last.op = "put"
  /\ Len(cache) = LowWater
  /\ Cardinality(last.out) = HighWater + 1 - LowWater
  /\ InCache(cache, last.table)

\* C32: the read count of a table advances by one when a load started by getData
\* returns, however many callers shared the load, and at no other step; a load
\* that threw leaves the counts and the cache alone; a load that returned is
\* cached exactly when the count has reached hotDataThreshold, and otherwise the
\* cache is left as it was.
C32_HotPromotion ==
  [][LET t == last'.table
     IN  IF last'.op = "loaded"
         THEN IF last'.data = Err
              THEN readCounts' = readCounts /\ cache' = cache
              ELSE /\ readCounts' = [readCounts EXCEPT ![t] = @ + 1]
                   /\ IF readCounts'[t] >= hotDataThreshold
                      THEN /\ InCache(cache', t)
                           /\ CacheEntry(cache', t).data = last'.data
                      ELSE cache' = cache
         ELSE readCounts' = readCounts]_vars

\* a load shared by two callers returned, made the count reach the threshold and
\* was cached
C32_Witness ==
  /\ last.op = "loaded"
  /\ Len(last.callers) = MaxCallers
  /\ last.data # Err
  /\ readCounts[last.table] = hotDataThreshold
  /\ InCache(cache, last.table)
  /\ CacheEntry(cache, last.table).data = last.data

\* C33: every load that pendingReads holds is in flight; when the load of a getData
\* has settled, by returning or by throwing, pendingReads holds no load of its
\* table, and a getData of the table that comes next and finds it uncached starts
\* a load of its own.
C33_RegistrationRemoved ==
  [][/\ \A l \in BagToSet(loads') : l.reg => l.pc \in {"reading", "read", "failed"}
     /\ last'.op = "loaded" => \A l \in BagToSet(loads') : l.table = last'.table => ~l.reg
     /\ last.op = "loaded" /\ last'.table = last.table /\ last'.op \in {"start", "join"} =>
          last'.op = "start"]_vars

\* a load shared by two callers threw, and its registration is gone
C33_Witness ==
  /\ last.op = "loaded"
  /\ last.data = Err
  /\ Len(last.callers) = MaxCallers
  /\ Pending(last.table) = {}
  /\ ~InCache(cache, last.table)

\* C34: a getData served from the cache starts no load and changes nothing but the
\* last access of the entry it returns: the read counts, the loads and their
\* registrations, the write queue, the version counter, the timer, the flushes and
\* every other cache entry stay as they were.
C34_HitFrame ==
  [][last'.op = "hit" =>
       /\ UNCHANGED <<readCounts, loads, writeQueue, version, writeTimer, flushes, disk, temp>>
       /\ Len(cache') = Len(cache)
       /\ \A i \in 1..Len(cache) :
            IF cache[i].table = last'.table
            THEN cache'[i] = [cache[i] EXCEPT !.lastAccess = now]
            ELSE cache'[i] = cache[i]]_vars

\* a hit on a preloaded table, later than its last access, with a load in flight
\* and a write queued
C34_Witness ==
  /\ last.op = "hit"
  /\ now = MaxTime
  /\ CacheEntry(cache, last.table).version = 0
  /\ CacheEntry(cache, last.table).lastAccess = now
  /\ \E i \in 1..Len(cache) : cache[i].lastAccess < now
  /\ loads # EmptyBag
  /\ writeQueue # <<>>

\* C35: on the sorted rows of the index and for every bound, the search for the
\* first position returns the smallest position whose value is not less than the
\* bound, or the number of rows when there is none, and the search for the last
\* position returns the largest position whose value is not greater than the
\* bound, or -1 when there is none; positions count from 0.
C35_SearchBoundaries ==
  idx.via = "index" =>
    LET arr == idx.index.rows
        P == 0..Len(arr) - 1
    IN  \A v \in Keys :
          LET ge == {p \in P : arr[p + 1].f >= v}
              le == {p \in P : arr[p + 1].f <= v}
              first == binarySearch(arr, v, TRUE)
              final == binarySearch(arr, v, FALSE)
          IN  /\ IF ge = {} THEN first = Len(arr)
                 ELSE first \in ge /\ \A p \in ge : first <= p
              /\ IF le = {} THEN final = -1
                 ELSE final \in le /\ \A p \in le : final >= p

\* a query whose bounds both equal a value that two of the rows share
C35_Witness ==
  /\ idx.via = "index"
  /\ Len(idx.index.rows) = MaxLen
  /\ idx.min = idx.max
  /\ idx.index.rows[1].f < idx.min
  /\ idx.index.rows[2].f = idx.min
  /\ idx.index.rows[3].f = idx.min
  /\ Len(idx.out) = 2

\* C36: every add() or update() called on the DbSet comes to an end, resolved or
\* rejected, and none runs before the call made before it has come to an end; a
\* call behind a rejected one is not held up.
C36_LockLiveness ==
  /\ \A i \in Adders : adds.pc[i] = "waiting" ~> adds.pc[i] \in {"done", "failed"}
  /\ [](\A i \in Adders :
          adds.pc[i] \in {"loading", "got", "done", "failed"} /\ adds.prev[i] # 0 =>
            adds.pc[adds.prev[i]] \in {"done", "failed"})

\* an add() called while an update() was under way has resolved after the update()
\* was rejected
C36_Witness ==
  \E i, j \in Adders :
    /\ adds.prev[j] = i
    /\ adds.op[i] = "update"
    /\ adds.pc[i] = "failed"
    /\ adds.op[j] = "add"
    /\ adds.pc[j] = "done"

\* C37: once a saveData has cached the snapshot of a table, the snapshot in the
\* table's cache entry changes only by a later saveData of the table; a load that
\* settles does not replace it.
C37_LoadKeepsPut ==
  [][\A t \in Tables :
       /\ lastPut[t] > 0
       /\ InCache(cache, t) /\ CacheEntry(cache, t).data = lastPut[t]
       /\ InCache(cache', t) /\ CacheEntry(cache', t).data # lastPut[t]
       => last'.op = "put" /\ last'.table = t]_vars

\* C38: at any time at most one write of a table is under way: no two writes of
\* flushes in flight are writing or renaming the temp file of the same table.
C38_OneWritePerTable ==
  \A t \in Tables :
    Cardinality({p \in {<<b, j>> : b \in 1..Len(flushes), j \in 1..NTables} :
                   /\ p[2] <= Len(flushes[p[1]].writes)
                   /\ flushes[p[1]].writes[p[2]].table = t
                   /\ flushes[p[1]].writes[p[2]].pc \notin {"done", "failed"}}) <= 1

\* C39: while the process runs, this.writeTimer holds a timer, and a timer is
\* scheduled, exactly when the write queue holds an entry.
C39_TimerIffQueued ==
  alive =>
    /\ writeTimer <=> writeQueue # <<>>
    /\ timers # <<>> <=> writeQueue # <<>>

\* a saveData that came while a flush was writing has queued its snapshot and set
\* a new timer
C39_Witness ==
  /\ alive
  /\ last.op = "put"
  /\ flushes # <<>>
  /\ writeQueue # <<>>
  /\ writeTimer
  /\ Len(timers) = 1

\* C40: the eviction that follows the caching of a table, by saveData, by a hot
\* load or by a preload, keeps that table: the table is not among the entries
\* removed and the cache holds what the step cached.
C40_PromotedSurvives ==
  [][LET t == last'.table
         promoted == \/ last'.op = "put"
                     \/ last'.op = "warmed" /\ last'.data # Err
                     \/ /\ last'.op = "loaded" /\ last'.data # Err
                        /\ readCounts'[t] >= hotDataThreshold
     IN  promoted =>
           /\ \A r \in last'.out : r.table # t
           /\ InCache(cache', t)
           /\ CacheEntry(cache', t).data = last'.data]_vars

\* a preload has set off an eviction that removed entries as recent as its own
C40_Witness ==
  /\ last.op = "warmed"
  /\ last.out # {}
  /\ InCache(cache, last.table)
  /\ \E r \in last.out : r.lastAccess = CacheEntry(cache, last.table).lastAccess

====
